---- MODULE Spec2Model ----
(***************************************************************************)
(* Model of the Binance Futures Testnet trading bot:                       *)
(*   bot/validators.py  - input validation (pure functions)                *)
(*   bot/client.py      - signed REST client (clock sync, sign, POST, ping)*)
(*   bot/orders.py      - order functions building the parameter sets      *)
(*   cli.py             - main(): validate, construct, ping, dispatch      *)
(*                                                                         *)
(* Python strings are sequences of one-character strings, so that strip,   *)
(* upper, isalnum, float() and str() are computed, not assumed.            *)
(***************************************************************************)
EXTENDS Integers, Sequences, FiniteSets, TLC

(***************************************************************************)
(* Bounds of the model (not program constants).                            *)
(***************************************************************************)
\* longest raw string drawn for the numeric validators
MaxLen == 3
\* largest server time (ms) the time endpoint answers with
MaxServerTime == 4
\* largest advance of the local clock between two readings
MaxDelay == 1
\* number of post_order calls made on one client in SpecClient
MaxCalls == 2
\* number of parameter-set objects the caller of the client holds
MaxObjects == 2

(***************************************************************************)
(* Python str: strip(), upper(), isalnum()                                 *)
(***************************************************************************)
LowerChars == <<"a","b","c","d","e","f","g","h","i","j","k","l","m",
                "n","o","p","q","r","s","t","u","v","w","x","y","z">>
UpperChars == <<"A","B","C","D","E","F","G","H","I","J","K","L","M",
                "N","O","P","Q","R","S","T","U","V","W","X","Y","Z">>
DigitChars == <<"0","1","2","3","4","5","6","7","8","9">>
Whitespace == {" "}

Range(f) == {f[i] : i \in DOMAIN f}

IndexOf(seq, c) == CHOOSE i \in DOMAIN seq : seq[i] = c

UpperChar(c) == IF c \in Range(LowerChars) THEN UpperChars[IndexOf(LowerChars, c)] ELSE c
LowerChar(c) == IF c \in Range(UpperChars) THEN LowerChars[IndexOf(UpperChars, c)] ELSE c

Upper(s) == [i \in DOMAIN s |-> UpperChar(s[i])]
Lower(s) == [i \in DOMAIN s |-> LowerChar(s[i])]

RECURSIVE LStrip(_)
LStrip(s) == IF s # <<>> /\ Head(s) \in Whitespace THEN LStrip(Tail(s)) ELSE s

RECURSIVE RStrip(_)
RStrip(s) ==
    IF s # <<>> /\ s[Len(s)] \in Whitespace THEN RStrip(SubSeq(s, 1, Len(s) - 1)) ELSE s

Strip(s) == RStrip(LStrip(s))

IsAlnum(s) ==
    /\ s # <<>>
    /\ \A i \in DOMAIN s :
          s[i] \in Range(LowerChars) \cup Range(UpperChars) \cup Range(DigitChars)

IsDigits(s) == \A i \in DOMAIN s : s[i] \in Range(DigitChars)

(***************************************************************************)
(* Python float.  A finite float is n / 10^d, kept normalised (no trailing *)
(* zero in the fraction); nan and the infinities are values of their own.  *)
(***************************************************************************)
Fin(n, d) == [k |-> "fin", n |-> n, d |-> d]
NaN       == [k |-> "nan", n |-> 0, d |-> 0]
Inf(sg)   == [k |-> "inf", n |-> sg, d |-> 0]

RECURSIVE Pow10(_)
Pow10(d) == IF d = 0 THEN 1 ELSE 10 * Pow10(d - 1)

RECURSIVE Normalise(_, _)
Normalise(n, d) ==
    IF d > 0 /\ n % 10 = 0 THEN Normalise(n \div 10, d - 1) ELSE Fin(n, d)

RECURSIVE DigitsValue(_)
DigitsValue(s) ==
    IF s = <<>> THEN 0
    ELSE 10 * DigitsValue(SubSeq(s, 1, Len(s) - 1)) + (IndexOf(DigitChars, s[Len(s)]) - 1)

\* position of the first "." in s, or 0
DotAt(s) == IF "." \in Range(s) THEN CHOOSE i \in DOMAIN s :
                                         s[i] = "." /\ \A j \in 1..(i - 1) : s[j] # "."
            ELSE 0

\* float(str): the value, or ValueError.  The grammar covered is
\*   [ws] [+|-] ( digits [. digits] | . digits | nan | inf | infinity ) [ws]
\* (exponents and digit-group underscores are outside the alphabets drawn).
DecimalValue(sg, ip, fp) ==
    IF IsDigits(ip) /\ IsDigits(fp) /\ Len(ip) + Len(fp) > 0
    THEN [ok |-> TRUE,
          f  |-> Normalise(sg * (DigitsValue(ip) * Pow10(Len(fp)) + DigitsValue(fp)),
                           Len(fp))]
    ELSE [ok |-> FALSE, f |-> Fin(0, 0)]

ParseDecimal(sg, body, dot) ==
    IF dot = 0 THEN DecimalValue(sg, body, <<>>)
    ELSE DecimalValue(sg, SubSeq(body, 1, dot - 1), SubSeq(body, dot + 1, Len(body)))

ParseSpecial(sg, body, low) ==
    IF low = <<"n","a","n">> THEN [ok |-> TRUE, f |-> NaN]
    ELSE IF low = <<"i","n","f">> \/ low = <<"i","n","f","i","n","i","t","y">>
         THEN [ok |-> TRUE, f |-> Inf(sg)]
    ELSE ParseDecimal(sg, body, DotAt(body))

ParseSigned(t) ==
    IF t # <<>> /\ Head(t) \in {"+", "-"}
    THEN ParseSpecial(IF Head(t) = "-" THEN -1 ELSE 1, Tail(t), Lower(Tail(t)))
    ELSE ParseSpecial(1, t, Lower(t))

ParseFloat(s) == ParseSigned(Strip(s))

\* the comparison x <= 0 of Python floats (false for nan)
FloatLeqZero(f) ==
    CASE f.k = "nan" -> FALSE
      [] f.k = "inf" -> f.n < 0
      [] OTHER       -> f.n <= 0

(***************************************************************************)
(* Python values handed around: None, a str, a float.                      *)
(***************************************************************************)
\* (the field a value does not use is left empty: <<>> or NoFloat)
NoFloat == Fin(0, 0)
NoneV   == [t |-> "none", s |-> <<>>, f |-> NoFloat]
StrV(s) == [t |-> "str", s |-> s, f |-> NoFloat]
NumV(f) == [t |-> "num", s |-> <<>>, f |-> f]

\* float(v): TypeError for None, ValueError for an unparsable str
ToFloat(v) ==
    CASE v.t = "none" -> [ok |-> FALSE, f |-> NoFloat]
      [] v.t = "str"  -> ParseFloat(v.s)
      [] OTHER        -> [ok |-> TRUE, f |-> v.f]

(***************************************************************************)
(* validators.py                                                           *)
(***************************************************************************)
S_BUY         == <<"B","U","Y">>
S_SELL        == <<"S","E","L","L">>
S_MARKET      == <<"M","A","R","K","E","T">>
S_LIMIT       == <<"L","I","M","I","T">>
S_TAKE_PROFIT == <<"T","A","K","E","_","P","R","O","F","I","T">>

VALID_SIDES       == {S_BUY, S_SELL}
VALID_ORDER_TYPES == {S_MARKET, S_LIMIT, S_TAKE_PROFIT}

NoErr == [field |-> "", kind |-> ""]
ValidationError(field, kind) == [ok |-> FALSE, val |-> NoneV,
                                 err |-> [field |-> field, kind |-> kind]]
Return(v) == [ok |-> TRUE, val |-> v, err |-> NoErr]

NormSymbol(s) ==
    IF s = <<>> THEN ValidationError("symbol", "empty")
    ELSE IF ~IsAlnum(s) THEN ValidationError("symbol", "not alphanumeric")
    ELSE Return(StrV(s))

validate_symbol(symbol) == NormSymbol(Upper(Strip(symbol)))

NormSide(s) ==
    IF s \notin VALID_SIDES THEN ValidationError("side", "invalid") ELSE Return(StrV(s))

validate_side(side) == NormSide(Upper(Strip(side)))

NormOrderType(s) ==
    IF s \notin VALID_ORDER_TYPES THEN ValidationError("order_type", "invalid")
    ELSE Return(StrV(s))

validate_order_type(order_type) == NormOrderType(Upper(Strip(order_type)))

\* what the three numeric validators do with float(raw): p is its outcome
PositiveFloat(field, p) ==
    IF ~p.ok THEN ValidationError(field, "not a valid number")
    ELSE IF FloatLeqZero(p.f) THEN ValidationError(field, "greater than 0")
    ELSE Return(NumV(p.f))

validate_quantity(quantity) == PositiveFloat("quantity", ToFloat(quantity))

validate_price(price) ==
    IF price.t = "none" THEN ValidationError("price", "required")
    ELSE PositiveFloat("price", ToFloat(price))

validate_stop_price(stop_price) ==
    IF stop_price.t = "none" THEN ValidationError("stop_price", "required")
    ELSE PositiveFloat("stop_price", ToFloat(stop_price))

(***************************************************************************)
(* Python dict: insertion-ordered sequence of <<key, value>>.              *)
(***************************************************************************)
DictKeys(d) == [i \in DOMAIN d |-> d[i][1]]
DictHas(d, k) == \E i \in DOMAIN d : d[i][1] = k
DictGet(d, k) == d[CHOOSE i \in DOMAIN d : d[i][1] = k][2]
\* d[k] = v: an existing key keeps its position, a new key goes last
DictSet(d, k, v) ==
    IF DictHas(d, k) THEN [i \in DOMAIN d |-> IF d[i][1] = k THEN <<k, v>> ELSE d[i]]
    ELSE Append(d, <<k, v>>)

Raised(r) == [ok |-> FALSE, dict |-> <<>>, err |-> r.err]
Validated(d) == [ok |-> TRUE, dict |-> d, err |-> NoErr]

\* validated[key] = <validator result r>: the error propagates
AddField(d, key, r) == IF ~r.ok THEN Raised(r) ELSE Validated(DictSet(d, key, r.val))

\* quantity required and validated whatever the order type
QuantityField_AllTypes(d, ot, quantity) ==
    IF quantity.t = "none" THEN Raised(ValidationError("--qty", "required"))
    ELSE AddField(d, "quantity", validate_quantity(quantity))

\* lines 106-109: quantity is required and validated for MARKET and LIMIT
QuantityField(d, ot, quantity) ==
    IF ot \in {S_MARKET, S_LIMIT}
    THEN IF quantity.t = "none" THEN Raised(ValidationError("--qty", "required"))
         ELSE AddField(d, "quantity", validate_quantity(quantity))
    ELSE Validated(d)

\* lines 111-112, reached when nothing raised before
PriceField(r, ot, price) ==
    IF ~r.ok THEN r
    ELSE IF ot = S_LIMIT THEN AddField(r.dict, "price", validate_price(price))
    ELSE r

\* lines 114-115, reached when nothing raised before
StopPriceField(r, ot, stop_price) ==
    IF ~r.ok THEN r
    ELSE IF ot = S_TAKE_PROFIT
         THEN AddField(r.dict, "stop_price", validate_stop_price(stop_price))
    ELSE r

\* lines 106-117: d is the dict with symbol, side and order_type
TypeFields(d, ot, quantity, price, stop_price) ==
    StopPriceField(PriceField(QuantityField(d, ot, quantity), ot, price), ot, stop_price)

\* symbol and side validated before the order type
CommonFields_SymbolFirst(ot, sy, si, quantity, price, stop_price) ==
    IF ~sy.ok THEN Raised(sy)
    ELSE IF ~si.ok THEN Raised(si)
    ELSE IF ~ot.ok THEN Raised(ot)
    ELSE TypeFields(<< <<"symbol", sy.val>>, <<"side", si.val>>,
                       <<"order_type", ot.val>> >>,
                    ot.val.s, quantity, price, stop_price)

\* lines 98-104: order type first, then symbol, then side
CommonFields(ot, sy, si, quantity, price, stop_price) ==
    IF ~ot.ok THEN Raised(ot)
    ELSE IF ~sy.ok THEN Raised(sy)
    ELSE IF ~si.ok THEN Raised(si)
    ELSE TypeFields(<< <<"symbol", sy.val>>, <<"side", si.val>>,
                       <<"order_type", ot.val>> >>,
                    ot.val.s, quantity, price, stop_price)

validate_all(symbol, side, order_type, quantity, price, stop_price) ==
    CommonFields(validate_order_type(order_type), validate_symbol(symbol),
                 validate_side(side), quantity, price, stop_price)

\* The arguments validate_all looks at, in the order it looks at them: a raise
\* ends the function, so nothing after the raising statement is evaluated.
\* lines 114-115
ExaminedStopPrice(ot) == IF ot = S_TAKE_PROFIT THEN <<"stop_price">> ELSE <<>>

\* lines 111-115
ExaminedPrice(ot, p) ==
    IF ot = S_LIMIT
    THEN <<"price">> \o (IF p.ok THEN ExaminedStopPrice(ot) ELSE <<>>)
    ELSE ExaminedStopPrice(ot)

\* lines 106-115: q is the outcome of lines 106-109
ExaminedTypeFields(ot, q, p) ==
    IF ot \in {S_MARKET, S_LIMIT}
    THEN <<"quantity">> \o (IF q.ok THEN ExaminedPrice(ot, p) ELSE <<>>)
    ELSE ExaminedPrice(ot, p)

\* lines 98-115
ExaminedFields(ot, sy, si, quantity, price) ==
    IF ~ot.ok THEN <<"order_type">>
    ELSE IF ~sy.ok THEN <<"order_type", "symbol">>
    ELSE IF ~si.ok THEN <<"order_type", "symbol", "side">>
    ELSE <<"order_type", "symbol", "side">>
         \o ExaminedTypeFields(ot.val.s, QuantityField(<<>>, ot.val.s, quantity),
                               validate_price(price))

Examined(symbol, side, order_type, quantity, price, stop_price) ==
    ExaminedFields(validate_order_type(order_type), validate_symbol(symbol),
                   validate_side(side), quantity, price)

(***************************************************************************)
(* str() of the values put in a parameter set, and urllib's urlencode.     *)
(***************************************************************************)
IntV(n) == [t |-> "int", s |-> <<>>, f |-> Fin(n, 0)]

RECURSIVE NatStr(_)
NatStr(n) == IF n < 10 THEN <<DigitChars[n + 1]>>
             ELSE NatStr(n \div 10) \o <<DigitChars[(n % 10) + 1]>>

Abs(n) == IF n < 0 THEN -n ELSE n
IntStr(n) == IF n < 0 THEN <<"-">> \o NatStr(-n) ELSE NatStr(n)

RECURSIVE ZeroPad(_, _)
ZeroPad(s, w) == IF Len(s) >= w THEN s ELSE ZeroPad(<<"0">> \o s, w)

\* repr of a float (the positional form, which is the one Python prints for
\* every magnitude the model draws)
FloatRepr(f) ==
    CASE f.k = "nan" -> <<"n","a","n">>
      [] f.k = "inf" -> IF f.n < 0 THEN <<"-","i","n","f">> ELSE <<"i","n","f">>
      [] OTHER ->
           LET a == Abs(f.n)
               p == Pow10(f.d)
           IN  (IF f.n < 0 THEN <<"-">> ELSE <<>>)
               \o NatStr(a \div p) \o <<".">>
               \o (IF f.d = 0 THEN <<"0">> ELSE ZeroPad(NatStr(a % p), f.d))

PyStr(v) ==
    CASE v.t = "str"  -> v.s
      [] v.t = "int"  -> IntStr(v.f.n)
      [] v.t = "num"  -> FloatRepr(v.f)
      [] OTHER        -> <<"N","o","n","e">>

\* quote_plus: a space becomes "+"; letters, digits, "_", ".", "-" stay; the
\* values of a parameter set hold no other character
QuotePlus(s) == [i \in DOMAIN s |-> IF s[i] = " " THEN "+" ELSE s[i]]

RECURSIVE urlencode(_)
urlencode(params) ==
    IF params = <<>> THEN <<>>
    ELSE LET n    == Len(params)
             pair == <<params[n][1], "=">> \o QuotePlus(PyStr(params[n][2]))
         IN  IF n = 1 THEN pair
             ELSE urlencode(SubSeq(params, 1, n - 1)) \o <<"&">> \o pair

\* hmac.new(key, msg, sha256).hexdigest(): the digest is kept symbolic, a
\* string that determines (key, msg) and is determined by them
HmacSha256Hex(key, msg) == <<"hmac(">> \o key \o <<",">> \o msg \o <<")">>

(***************************************************************************)
(* The network: what one HTTP call can come back with.                     *)
(***************************************************************************)
HttpStatuses == {200, 304, 400, 503}

\* requests.Response.ok: raise_for_status() does not raise, i.e. the status
\* is not a 4xx or 5xx one
ResponseOk(status) == ~(400 <= status /\ status < 600)

Body(kind, has, serverTime) ==
    [kind |-> kind, has |-> has, code |-> -2010, msg |-> "Insufficient balance",
     serverTime |-> serverTime]
TextBody   == Body("text", {}, 0)
ArrayBody  == Body("array", {}, 0)
ObjectBody(has) == Body("object", has, 0)

Response(status, body) == [kind |-> "response", status |-> status, body |-> body]
NetError(kind)         == [kind |-> kind, status |-> 0, body |-> TextBody]
NoNet                  == NetError("none")

NetExceptions == {NetError("ConnectionError"), NetError("Timeout"),
                  NetError("RequestException")}

TimeOutcomes ==
    NetExceptions
    \cup {Response(st, b) : st \in {200, 503}, b \in {TextBody, ArrayBody, ObjectBody({})}}
    \cup {Response(200, Body("object", {"serverTime"}, t)) : t \in 0..MaxServerTime}

PingOutcomes == NetExceptions \cup {Response(st, ObjectBody({})) : st \in HttpStatuses}

PostOutcomes ==
    NetExceptions
    \cup {Response(st, b) : st \in HttpStatuses,
                            b \in {TextBody, ArrayBody}
                                  \cup {ObjectBody(h) : h \in SUBSET {"code", "msg"}}}

(***************************************************************************)
(* client.py                                                               *)
(***************************************************************************)
NoExc == [type |-> "", status_code |-> 0, code |-> 0, message |-> ""]
Exc(type) == [type |-> type, status_code |-> 0, code |-> 0, message |-> ""]
BinanceAPIError(status_code, code, message) ==
    [type |-> "BinanceAPIError", status_code |-> status_code, code |-> code,
     message |-> message]

LogEntry(logger, level, what) == [logger |-> logger, level |-> level, what |-> what]

\* response.json(): ValueError when the body is not JSON
JsonOk(body) == body.kind # "text"
\* data.get(key, default) on the parsed body: AttributeError unless a dict
HasGet(body) == body.kind = "object"

NoClient == [constructed |-> FALSE, api_key |-> <<>>, api_secret |-> <<>>,
             time_offset_ms |-> 0]

\* os.getenv(name, "") without the strip()
Getenv_NoStrip(v) == IF v.t = "none" THEN <<>> ELSE v.s

\* os.getenv(name, "").strip()
Getenv(v) == Strip(IF v.t = "none" THEN <<>> ELSE v.s)

\* get_server_time: the GET may raise, json() may raise, .get may raise
get_server_time(net) ==
    IF net.kind # "response" THEN [raised |-> TRUE, exc |-> Exc(net.kind), value |-> 0]
    ELSE IF ~JsonOk(net.body) THEN [raised |-> TRUE, exc |-> Exc("ValueError"), value |-> 0]
    ELSE IF ~HasGet(net.body)
         THEN [raised |-> TRUE, exc |-> Exc("AttributeError"), value |-> 0]
    ELSE [raised |-> FALSE, exc |-> NoExc,
          value |-> IF "serverTime" \in net.body.has THEN net.body.serverTime ELSE 0]

\* _sync_time: the offset stored, and the warning logged on any exception;
\* st is what get_server_time did
SyncFrom(st, local_mid) ==
    IF st.raised
    THEN [offset |-> 0,
          log |-> <<LogEntry("client", "WARNING", "Could not sync server time")>>]
    ELSE [offset |-> st.value - local_mid, log |-> <<>>]

sync_time(local_before, local_after, net) ==
    SyncFrom(get_server_time(net), (local_before + local_after) \div 2)

timestamp(client, now) == now + client.time_offset_ms

sign(client, params) == HmacSha256Hex(client.api_secret, urlencode(params))

PostResult(p, raised, exc, data, log) ==
    [params |-> p, raised |-> raised, exc |-> exc, data |-> data, log |-> log]

\* lines 122-141 of _post: p is the signed parameter set, sent as the body
Send(p, net) ==
    IF net.kind = "ConnectionError"
    THEN PostResult(p, TRUE, Exc("ConnectionError"), net.body,
                    <<LogEntry("client", "ERROR", "Network error")>>)
    ELSE IF net.kind = "Timeout"
    THEN PostResult(p, TRUE, Exc("Timeout"), net.body,
                    <<LogEntry("client", "ERROR", "timed out")>>)
    ELSE IF net.kind # "response"
    THEN PostResult(p, TRUE, Exc(net.kind), net.body, <<>>)
    ELSE IF ~JsonOk(net.body)
    THEN PostResult(p, TRUE, Exc("ValueError"), net.body, <<>>)
    ELSE IF ResponseOk(net.status)
    THEN PostResult(p, FALSE, NoExc, net.body, <<>>)
    ELSE IF ~HasGet(net.body)
    THEN PostResult(p, TRUE, Exc("AttributeError"), net.body, <<>>)
    ELSE PostResult(p, TRUE,
                    BinanceAPIError(
                        net.status,
                        IF "code" \in net.body.has THEN net.body.code ELSE -1,
                        IF "msg" \in net.body.has THEN net.body.msg ELSE "Unknown error"),
                    net.body,
                    <<LogEntry("client", "ERROR", "Binance API error")>>)

\* line 116: params["signature"] = self._sign(params)
SetSignature(client, p) == DictSet(p, "signature", StrV(sign(client, p)))

\* line 115: params["timestamp"] = self._timestamp()
SetTimestamp(client, params, now) == DictSet(params, "timestamp", IntV(timestamp(client, now)))

\* _post: params is the caller's dict, mutated in place; the result carries
\* the dict as it is after the call, which is the body sent
post(client, params, now, net) ==
    Send(SetSignature(client, SetTimestamp(client, params, now)), net)

post_order(client, params, now, net) == post(client, params, now, net)

\* ping catching requests' ConnectionError only
ping_CatchConnectionError(net) ==
    IF net.kind = "response"
    THEN [raised |-> FALSE, exc |-> NoExc, value |-> ResponseOk(net.status), log |-> <<>>]
    ELSE IF net.kind = "ConnectionError"
    THEN [raised |-> FALSE, exc |-> NoExc, value |-> FALSE,
          log |-> <<LogEntry("client", "ERROR", "Ping failed")>>]
    ELSE [raised |-> TRUE, exc |-> Exc(net.kind), value |-> FALSE, log |-> <<>>]

\* ping: every Exception of the GET is caught
ping(net) ==
    IF net.kind = "response"
    THEN [raised |-> FALSE, exc |-> NoExc, value |-> ResponseOk(net.status), log |-> <<>>]
    ELSE [raised |-> FALSE, exc |-> NoExc, value |-> FALSE,
          log |-> <<LogEntry("client", "ERROR", "Ping failed")>>]

(***************************************************************************)
(* BinanceClient.__init__: credentials from the environment, then the      *)
(* clock sync (the one network call of construction).                      *)
(***************************************************************************)
Call(method, endpoint) == [method |-> method, endpoint |-> endpoint]
GetTime   == Call("GET", "/fapi/v1/time")
GetPing   == Call("GET", "/fapi/v1/ping")
PostOrder == Call("POST", "/fapi/v1/order")

\* lines 66-76: the client once the credentials are accepted
Constructed(key, secret, sync) ==
    [raised |-> FALSE, exc |-> NoExc,
     client |-> [constructed |-> TRUE, api_key |-> key, api_secret |-> secret,
                 time_offset_ms |-> sync.offset],
     calls |-> <<GetTime>>, log |-> sync.log]

\* lines 54-64: either credential empty after strip() raises EnvironmentError
WithCredentials(key, secret, local_before, local_after, net) ==
    IF key = <<>> \/ secret = <<>>
    THEN [raised |-> TRUE, exc |-> Exc("EnvironmentError"), client |-> NoClient,
          calls |-> <<>>, log |-> <<>>]
    ELSE Constructed(key, secret, sync_time(local_before, local_after, net))

BinanceClient(env, local_before, local_after, net) ==
    WithCredentials(Getenv(env.BINANCE_API_KEY), Getenv(env.BINANCE_API_SECRET),
                    local_before, local_after, net)

(***************************************************************************)
(* orders.py                                                               *)
(***************************************************************************)
S_TAKE_PROFIT_MARKET ==
    <<"T","A","K","E","_","P","R","O","F","I","T","_","M","A","R","K","E","T">>
S_GTC  == <<"G","T","C">>
S_true == <<"t","r","u","e">>

market_params(symbol, side, quantity) ==
    << <<"symbol", symbol>>, <<"side", side>>, <<"type", StrV(S_MARKET)>>,
       <<"quantity", quantity>> >>

limit_params(symbol, side, quantity, price, time_in_force) ==
    << <<"symbol", symbol>>, <<"side", side>>, <<"type", StrV(S_LIMIT)>>,
       <<"quantity", quantity>>, <<"price", price>>, <<"timeInForce", time_in_force>> >>

\* the CLI-facing type name sent as the exchange type
take_profit_params_CliType(symbol, side, stop_price) ==
    << <<"symbol", symbol>>, <<"side", side>>, <<"type", StrV(S_TAKE_PROFIT)>>,
       <<"stopPrice", stop_price>>, <<"closePosition", StrV(S_true)>> >>

take_profit_params(symbol, side, stop_price) ==
    << <<"symbol", symbol>>, <<"side", side>>, <<"type", StrV(S_TAKE_PROFIT_MARKET)>>,
       <<"stopPrice", stop_price>>, <<"closePosition", StrV(S_true)>> >>

PlaceResult(handed, r, raised, exc, log) ==
    [handed |-> handed, params |-> r.params, raised |-> raised, exc |-> exc,
     response |-> r.data, log |-> r.log \o log,
     post |-> [raised |-> r.raised, exc |-> r.exc]]

\* what the three order functions do with post_order's outcome r: log and
\* re-raise a BinanceAPIError; let any other exception through; print the
\* response (response.get: AttributeError unless the parsed body is a dict);
\* log the success
AfterPost(handed, r) ==
    IF r.raised /\ r.exc.type = "BinanceAPIError"
    THEN PlaceResult(handed, r, TRUE, r.exc,
                     <<LogEntry("orders", "ERROR", "Failed to place order")>>)
    ELSE IF r.raised THEN PlaceResult(handed, r, TRUE, r.exc, <<>>)
    ELSE IF ~HasGet(r.data) THEN PlaceResult(handed, r, TRUE, Exc("AttributeError"), <<>>)
    ELSE PlaceResult(handed, r, FALSE, NoExc,
                     <<LogEntry("orders", "INFO", "order placed")>>)

place(params, client, now, net) == AfterPost(params, post_order(client, params, now, net))

place_market_order(client, symbol, side, quantity, now, net) ==
    place(market_params(symbol, side, quantity), client, now, net)

place_limit_order(client, symbol, side, quantity, price, now, net) ==
    place(limit_params(symbol, side, quantity, price, StrV(S_GTC)), client, now, net)

place_take_profit_market_order(client, symbol, side, stop_price, now, net) ==
    place(take_profit_params(symbol, side, stop_price), client, now, net)

(***************************************************************************)
(* State                                                                   *)
(***************************************************************************)
VARIABLES
    args,       \* the parsed command line (argparse namespace)
    environ,    \* BINANCE_API_KEY / BINANCE_API_SECRET of the process
    pc,         \* where main() is
    validated,  \* what validate_all returned or raised
    client,     \* the BinanceClient, once constructed
    calls,      \* the network calls issued so far, in order
    handed,     \* the parameter set as the order function built it
    sent,       \* the parameter set as _post sent it
    exitCode,   \* the exit status of the process (-1 while running)
    last,       \* the last client operation: its network outcome and result
    log,        \* the records written to the log
    clock,      \* the local clock (ms)
    heap,       \* parameter-set objects held by a caller of the client
    vres        \* results of the single-field validators

vars == <<args, environ, pc, validated, client, calls, handed, sent, exitCode, last,
          log, clock, heap, vres>>

\* first reading of the local clock
StartClock == 2

NoValidated == [ok |-> FALSE, dict |-> <<>>, err |-> NoErr]
NoPost == [raised |-> FALSE, exc |-> NoExc]
Last(op, net, raised, exc, value, po) ==
    [op |-> op, net |-> net, raised |-> raised, exc |-> exc, value |-> value,
     post |-> po]
NoLast == Last("none", NoNet, FALSE, NoExc, FALSE, NoPost)
NoVres == [fn |-> "", r |-> Return(NoneV)]

Args(symbol, side, order_type, qty, price, stop_price) ==
    [symbol |-> symbol, side |-> side, order_type |-> order_type, qty |-> qty,
     price |-> price, stop_price |-> stop_price]

\* command lines of the main flow
SymbolInputs == {<<"b","1">>, <<" ">>, <<"b","-">>}
SideInputs   == {<<"b","u","y">>, <<"S","E","L","L"," ">>, <<"x">>}
TypeInputs   == {<<"m","a","r","k","e","t">>, <<" ","L","I","M","I","T">>,
                 <<"t","a","k","e","_","p","r","o","f","i","t">>,
                 <<"s","t","o","p","_","m","a","r","k","e","t">>}
QtyInputs    == {NoneV, StrV(<<"1">>), StrV(<<"0">>), StrV(<<"n","a","n">>)}
PriceInputs  == {NoneV, StrV(<<"2",".","5">>), StrV(<<"x">>)}
StopInputs   == {NoneV, StrV(<<"3">>), StrV(<<"-","1">>)}
KeyInputs    == {NoneV, StrV(<<" ">>), StrV(<<"k">>)}
SecretInputs == {NoneV, StrV(<<>>), StrV(<<"s"," ">>)}

MainArgs == {Args(sy, si, ot, q, p, sp) :
                sy \in SymbolInputs, si \in SideInputs, ot \in TypeInputs,
                q \in QtyInputs, p \in PriceInputs, sp \in StopInputs}
Environs == {[BINANCE_API_KEY |-> k, BINANCE_API_SECRET |-> s] :
                k \in KeyInputs, s \in SecretInputs}

Init ==
    /\ args \in MainArgs
    /\ environ \in Environs
    /\ pc = "validate"
    /\ validated = NoValidated
    /\ client = NoClient
    /\ calls = <<>>
    /\ handed = <<>>
    /\ sent = <<>>
    /\ exitCode = -1
    /\ last = NoLast
    /\ log = <<>>
    /\ clock = StartClock
    /\ heap = <<>>
    /\ vres = NoVres

(***************************************************************************)
(* cli.py main(), cut at its network calls                                 *)
(***************************************************************************)
CliError(what) == LogEntry("cli", "ERROR", what)

\* main() going on to the client after a ValidationError
Validating_NoExit(v) ==
    /\ validated' = v
    /\ pc' = "construct"
    /\ log' = IF v.ok THEN log ELSE Append(log, CliError("Validation failed"))
    /\ UNCHANGED exitCode

\* lines 99-117: validate_all; a ValidationError ends the run with status 1
Validating(v) ==
    /\ validated' = v
    /\ IF v.ok
       THEN /\ pc' = "construct"
            /\ UNCHANGED <<exitCode, log>>
       ELSE /\ pc' = "exited"
            /\ exitCode' = 1
            /\ log' = Append(log, CliError("Validation failed"))

MainValidate ==
    /\ pc = "validate"
    /\ Validating(validate_all(args.symbol, args.side, args.order_type, args.qty,
                               args.price, args.stop_price))
    /\ UNCHANGED <<args, environ, client, calls, handed, sent, last, clock, heap, vres>>

\* lines 119-125: BinanceClient(); an EnvironmentError ends the run with status 1
Constructing(c, net, now) ==
    IF c.raised
    THEN /\ pc' = "exited"
         /\ exitCode' = 1
         /\ log' = Append(log, CliError("Client init failed"))
         /\ UNCHANGED <<client, calls, last, clock>>
    ELSE /\ pc' = "ping"
         /\ client' = c.client
         /\ calls' = calls \o c.calls
         /\ log' = log \o c.log
         /\ last' = Last("sync", net, FALSE, NoExc, FALSE, NoPost)
         /\ clock' = now
         /\ UNCHANGED exitCode

MainConstruct ==
    /\ pc = "construct"
    /\ \E d \in 0..MaxDelay, net \in TimeOutcomes :
          Constructing(BinanceClient(environ, clock, clock + d, net), net, clock + d)
    /\ UNCHANGED <<args, environ, validated, handed, sent, heap, vres>>

\* main() going on to the order whatever ping returned
Pinging_NoExit(r, net) ==
    /\ calls' = Append(calls, GetPing)
    /\ last' = Last("ping", net, r.raised, r.exc, r.value, NoPost)
    /\ pc' = "dispatch"
    /\ log' = log \o r.log
    /\ UNCHANGED exitCode

\* lines 127-131: client.ping(); false ends the run with status 1 (ping is
\* outside every try: an exception out of it would end the run with a traceback
\* and status 1)
Pinging(r, net) ==
    /\ calls' = Append(calls, GetPing)
    /\ last' = Last("ping", net, r.raised, r.exc, r.value, NoPost)
    /\ IF r.raised
       THEN /\ pc' = "exited"
            /\ exitCode' = 1
            /\ log' = log \o r.log
       ELSE IF ~r.value
       THEN /\ pc' = "exited"
            /\ exitCode' = 1
            /\ log' = (log \o r.log) \o <<CliError("Cannot reach Binance Testnet")>>
       ELSE /\ pc' = "dispatch"
            /\ log' = log \o r.log
            /\ UNCHANGED exitCode

MainPing ==
    /\ pc = "ping"
    /\ \E net \in PingOutcomes : Pinging(ping(net), net)
    /\ UNCHANGED <<args, environ, validated, client, handed, sent, clock, heap, vres>>

\* validated.get(key): None when the key is absent
ValidatedGet(key) ==
    IF DictHas(validated.dict, key) THEN DictGet(validated.dict, key) ELSE NoneV

\* lines 133-144: the order function main() calls for the validated order type
DispatchOn(order_type, symbol, side, quantity, now, net) ==
    CASE order_type = S_MARKET ->
           place_market_order(client, symbol, side, quantity, now, net)
      [] order_type = S_LIMIT ->
           place_limit_order(client, symbol, side, quantity, ValidatedGet("price"),
                             now, net)
      [] order_type = S_TAKE_PROFIT ->
           place_take_profit_market_order(client, symbol, side,
                                          ValidatedGet("stop_price"), now, net)

\* lines 114-117: what main() reads from the validated dict
Dispatch(now, net) ==
    DispatchOn(ValidatedGet("order_type").s, ValidatedGet("symbol"), ValidatedGet("side"),
               ValidatedGet("quantity"), now, net)

\* lines 146-152 and the end of main(): a BinanceAPIError or any other
\* Exception ends the run with status 1; falling off the end is status 0
ExitStatus(r) == IF r.raised THEN 1 ELSE 0

Dispatching(r, net, now) ==
    /\ calls' = Append(calls, PostOrder)
    /\ handed' = r.handed
    /\ sent' = r.params
    /\ last' = Last("post", net, r.raised, r.exc, FALSE, r.post)
    /\ log' = (log \o r.log)
              \o (IF r.raised /\ r.exc.type # "BinanceAPIError"
                  THEN <<CliError("Unexpected error")>> ELSE <<>>)
    /\ exitCode' = ExitStatus(r)
    /\ clock' = now
    /\ pc' = "exited"

MainDispatch ==
    /\ pc = "dispatch"
    /\ \E d \in 0..MaxDelay, net \in PostOutcomes :
          Dispatching(Dispatch(clock + d, net), net, clock + d)
    /\ UNCHANGED <<args, environ, validated, client, heap, vres>>

Next == MainValidate \/ MainConstruct \/ MainPing \/ MainDispatch

Spec == Init /\ [][Next]_vars

(***************************************************************************)
(* The validators on their own: each is called once on a drawn input.      *)
(***************************************************************************)
NumAlphabet == {" ", "-", ".", "0", "1", "n", "a", "i", "f"}
RawStrings  == UNION {[1..k -> NumAlphabet] : k \in 0..MaxLen}
RawFloats   == {NumV(f) : f \in {Fin(-1, 0), Fin(0, 0), Fin(5, 1), NaN, Inf(1), Inf(-1)}}
RawValues   == {NoneV} \cup {StrV(s) : s \in RawStrings} \cup RawFloats

\* one raw value given as quantity, price and stop price of a valid order
WideArgs == {Args(<<"b","1">>, <<"b","u","y">>, ot, w, w, w) :
                ot \in {<<"m","a","r","k","e","t">>, <<" ","L","I","M","I","T">>,
                        <<"t","a","k","e","_","p","r","o","f","i","t">>},
                w \in RawValues}

ValidateArgs == MainArgs \cup WideArgs

InitValidate ==
    /\ args \in ValidateArgs
    /\ environ \in {[BINANCE_API_KEY |-> NoneV, BINANCE_API_SECRET |-> NoneV]}
    /\ pc = "call"
    /\ validated = NoValidated
    /\ client = NoClient
    /\ calls = <<>>
    /\ handed = <<>>
    /\ sent = <<>>
    /\ exitCode = -1
    /\ last = NoLast
    /\ log = <<>>
    /\ clock = StartClock
    /\ heap = <<>>
    /\ vres = NoVres

Returned(fn, r) ==
    /\ pc = "call"
    /\ pc' = "returned"
    /\ vres' = [fn |-> fn, r |-> r]
    /\ UNCHANGED <<args, environ, validated, client, calls, handed, sent, exitCode,
                   last, log, clock, heap>>

CallValidateQuantity  == Returned("validate_quantity", validate_quantity(args.qty))
CallValidatePrice     == Returned("validate_price", validate_price(args.price))
CallValidateStopPrice == Returned("validate_stop_price",
                                  validate_stop_price(args.stop_price))

CallValidateAll ==
    /\ pc = "call"
    /\ pc' = "returned"
    /\ vres' = [fn |-> "validate_all", r |-> Return(NoneV)]
    /\ validated' = validate_all(args.symbol, args.side, args.order_type, args.qty,
                                 args.price, args.stop_price)
    /\ UNCHANGED <<args, environ, client, calls, handed, sent, exitCode, last, log,
                   clock, heap>>

NextValidate ==
    \/ CallValidateQuantity
    \/ CallValidatePrice
    \/ CallValidateStopPrice
    \/ CallValidateAll

SpecValidate == InitValidate /\ [][NextValidate]_vars

(***************************************************************************)
(* The client on its own: a caller constructs it, builds parameter sets    *)
(* and calls post_order, possibly again with a dict it passed before.      *)
(***************************************************************************)
ClientEnvirons == {[BINANCE_API_KEY |-> StrV(<<"k">>),
                    BINANCE_API_SECRET |-> StrV(<<"s"," ">>)]}

ClientTimeOutcomes == {NetError("ConnectionError"),
                       Response(200, Body("object", {"serverTime"}, MaxServerTime))}

ClientPostOutcomes == {NetError("ConnectionError"),
                       Response(200, ObjectBody({})),
                       Response(400, ObjectBody({"code", "msg"})),
                       Response(503, TextBody)}

\* the parameter sets a caller builds, as the order functions build them
CallerParams ==
    {market_params(StrV(<<"B","1">>), StrV(S_BUY), NumV(Fin(1, 0))),
     limit_params(StrV(<<"B","1">>), StrV(S_SELL), NumV(Fin(1, 0)), NumV(Fin(25, 1)),
                  StrV(S_GTC)),
     take_profit_params(StrV(<<"B","1">>), StrV(S_BUY), NumV(Fin(3, 0)))}

InitClient ==
    /\ args \in {Args(<<>>, <<>>, <<>>, NoneV, NoneV, NoneV)}
    /\ environ \in ClientEnvirons
    /\ pc = "new"
    /\ validated = NoValidated
    /\ client = NoClient
    /\ calls = <<>>
    /\ handed = <<>>
    /\ sent = <<>>
    /\ exitCode = -1
    /\ last = NoLast
    /\ log = <<>>
    /\ clock = StartClock
    /\ heap = <<>>
    /\ vres = NoVres

ClientConstructing(c, net, now) ==
    /\ ~c.raised
    /\ pc' = "ready"
    /\ client' = c.client
    /\ calls' = calls \o c.calls
    /\ log' = log \o c.log
    /\ last' = Last("sync", net, FALSE, NoExc, FALSE, NoPost)
    /\ clock' = now

ClientConstruct ==
    /\ pc = "new"
    /\ \E d \in 0..MaxDelay, net \in ClientTimeOutcomes :
          ClientConstructing(BinanceClient(environ, clock, clock + d, net), net, clock + d)
    /\ UNCHANGED <<args, environ, validated, handed, sent, exitCode, heap, vres>>

\* the caller makes a new dict
ClientBuild ==
    /\ pc = "ready"
    /\ Len(heap) < MaxObjects
    /\ \E p \in CallerParams : heap' = Append(heap, p)
    /\ UNCHANGED <<args, environ, pc, validated, client, calls, handed, sent, exitCode,
                   last, log, clock, vres>>

\* post_order(heap[i]): the dict is mutated in place
ClientPosting(i, r, net, now) ==
    /\ calls' = Append(calls, PostOrder)
    /\ handed' = heap[i]
    /\ sent' = r.params
    /\ heap' = [heap EXCEPT ![i] = r.params]
    /\ last' = Last("post", net, r.raised, r.exc, FALSE,
                    [raised |-> r.raised, exc |-> r.exc])
    /\ log' = log \o r.log
    /\ clock' = now

ClientPost ==
    /\ pc = "ready"
    /\ Len(calls) <= MaxCalls
    /\ \E i \in DOMAIN heap, d \in 0..MaxDelay, net \in ClientPostOutcomes :
          ClientPosting(i, post_order(client, heap[i], clock + d, net), net, clock + d)
    /\ UNCHANGED <<args, environ, pc, validated, client, exitCode, vres>>

NextClient == ClientConstruct \/ ClientBuild \/ ClientPost

SpecClient == InitClient /\ [][NextClient]_vars

(***************************************************************************)
(* Properties                                                              *)
(***************************************************************************)
IsResponse(net) == net.kind = "response"

Is2xx(status) == 200 <= status /\ status < 300

\* "f is a number strictly greater than zero"
FloatPositive(f) ==
    CASE f.k = "nan" -> FALSE
      [] f.k = "inf" -> f.n > 0
      [] OTHER       -> f.n > 0

\* C1: in every run of main(), once validate_all has raised a ValidationError
\* no network call is issued (no server-time GET, ping or order POST), the
\* client is not constructed, and the process has ended with exit status 1.
C1_ValidationErrorNoNetwork ==
    (pc # "validate" /\ ~validated.ok) =>
        /\ calls = <<>>
        /\ ~client.constructed
        /\ pc = "exited"
        /\ exitCode = 1

C1_Witness ==
    /\ pc = "exited"
    /\ ~validated.ok
    /\ validated.err.field = "price"
    /\ exitCode = 1

\* C2 (as claimed): every non-2xx response to post_order, whatever its body,
\* makes post_order raise a BinanceAPIError carrying the HTTP status, the
\* exchange code (or -1) and the exchange message (or "Unknown error").
C2_Non2xxRaisesApiError ==
    (last.op = "post" /\ IsResponse(last.net) /\ ~Is2xx(last.net.status)) =>
        /\ last.post.raised
        /\ last.post.exc.type = "BinanceAPIError"
        /\ last.post.exc.status_code = last.net.status
        /\ last.post.exc.code =
              IF last.net.body.kind = "object" /\ "code" \in last.net.body.has
              THEN last.net.body.code ELSE -1
        /\ last.post.exc.message =
              IF last.net.body.kind = "object" /\ "msg" \in last.net.body.has
              THEN last.net.body.msg ELSE "Unknown error"

\* the server-time call did not yield a server time
NoServerTime(net) ==
    \/ ~IsResponse(net)
    \/ net.body.kind # "object"
    \/ "serverTime" \notin net.body.has

Blank(v) == v.t = "none" \/ \A i \in DOMAIN v.s : v.s[i] = " "

\* C3 (as claimed): construction with non-empty credentials always succeeds,
\* and whenever the server-time call yields no server time (connection error,
\* timeout, body that is not JSON, JSON without serverTime) the stored offset
\* is exactly 0.
C3_OffsetZeroUnlessServerTime ==
    /\ (validated.ok /\ pc \in {"ping", "dispatch"}) => client.constructed
    /\ (last.op = "sync" /\ NoServerTime(last.net)) => client.time_offset_ms = 0

\* C4 (as claimed): the body of every post_order call is the order parameters,
\* then timestamp, then signature; the timestamp is the one of this call; and
\* the signature is the HMAC of the encoding of exactly the fields sent other
\* than signature.
C4_SignatureOverFieldsSent ==
    (last.op = "post") =>
        LET n == Len(sent)
        IN  /\ n >= 2
            /\ sent[n - 1] = <<"timestamp", IntV(clock + client.time_offset_ms)>>
            /\ sent[n][1] = "signature"
            /\ \A i \in 1..(n - 2) : sent[i][1] \notin {"timestamp", "signature"}
            /\ sent[n][2] = StrV(HmacSha256Hex(client.api_secret,
                                               urlencode(SubSeq(sent, 1, n - 1))))

\* C5: when either credential is absent, empty or only whitespace, no network
\* call is ever issued, no client exists, and a run that got past validation
\* has ended at the construction with "Client init failed" and exit status 1.
C5_BlankCredentialNoNetwork ==
    (Blank(environ.BINANCE_API_KEY) \/ Blank(environ.BINANCE_API_SECRET)) =>
        /\ calls = <<>>
        /\ ~client.constructed
        /\ pc \in {"validate", "construct", "exited"}
        /\ (pc = "exited" => exitCode = 1)
        /\ (pc = "exited" /\ validated.ok) =>
               log[Len(log)] = CliError("Client init failed")

C5_Witness ==
    /\ environ.BINANCE_API_KEY = StrV(<<" ">>)
    /\ ~Blank(environ.BINANCE_API_SECRET)
    /\ validated.ok
    /\ pc = "exited"
    /\ exitCode = 1

QtyRequired == [field |-> "--qty", kind |-> "required"]

\* C6: for a valid symbol, side and order type, validate_all applies the
\* type-conditioned rules.  MARKET: quantity absent is the quantity-required
\* error, quantity present decides the outcome alone, and the dict returned has
\* exactly symbol, side, order_type, quantity.  LIMIT: the same for quantity,
\* then price absent is the price-required error, and the dict returned adds
\* quantity and price.  TAKE_PROFIT: the outcome is that of the stop price
\* alone, whatever quantity is (absent, valid or invalid), and the dict
\* returned has stop_price and neither quantity nor price.
C6_TypeConditionedFields ==
    (/\ vres.fn = "validate_all"
     /\ validate_symbol(args.symbol).ok
     /\ validate_side(args.side).ok
     /\ validate_order_type(args.order_type).ok) =>
        LET ot   == Upper(Strip(args.order_type))
            keys == DictKeys(validated.dict)
            q    == validate_quantity(args.qty)
            p    == validate_price(args.price)
            sp   == validate_stop_price(args.stop_price)
        IN  /\ ot = S_MARKET =>
                 /\ args.qty.t = "none" => (~validated.ok /\ validated.err = QtyRequired)
                 /\ args.qty.t # "none" =>
                       /\ validated.ok <=> q.ok
                       /\ ~q.ok => validated.err = q.err
                 /\ validated.ok =>
                       /\ keys = <<"symbol", "side", "order_type", "quantity">>
                       /\ DictGet(validated.dict, "quantity") = q.val
            /\ ot = S_LIMIT =>
                 /\ args.qty.t = "none" => (~validated.ok /\ validated.err = QtyRequired)
                 /\ args.qty.t # "none" =>
                       /\ validated.ok <=> (q.ok /\ p.ok)
                       /\ ~q.ok => validated.err = q.err
                       /\ (q.ok /\ args.price.t = "none") =>
                              validated.err = [field |-> "price", kind |-> "required"]
                 /\ validated.ok =>
                       /\ keys = <<"symbol", "side", "order_type", "quantity", "price">>
                       /\ DictGet(validated.dict, "quantity") = q.val
                       /\ DictGet(validated.dict, "price") = p.val
            /\ ot = S_TAKE_PROFIT =>
                 /\ validated.ok <=> sp.ok
                 /\ ~validated.ok => validated.err = sp.err
                 /\ validated.ok =>
                       /\ keys = <<"symbol", "side", "order_type", "stop_price">>
                       /\ DictGet(validated.dict, "stop_price") = sp.val

C6_Witness ==
    /\ vres.fn = "validate_all"
    /\ validated.ok
    /\ DictHas(validated.dict, "stop_price")
    /\ args.qty = StrV(<<"0">>)

\* what C7 claims of one numeric validator: raw is its input, r its outcome
NumericRule(raw, r, required) ==
    LET p == ToFloat(raw)
    IN  /\ r.ok <=> (p.ok /\ FloatPositive(p.f))
        /\ r.ok => r.val = NumV(p.f)
        /\ (p.ok /\ ~FloatPositive(p.f)) => r.err.kind = "greater than 0"
        /\ (~p.ok /\ ~(required /\ raw.t = "none")) => r.err.kind = "not a valid number"
        /\ (required /\ raw.t = "none") => r.err.kind = "required"

\* C7 (as claimed): validate_quantity, validate_price and validate_stop_price
\* succeed iff the raw value parses as a number and is strictly greater than
\* zero, returning that number; zero and negative values fail with "greater
\* than 0", unparsable ones with "not a valid number", an absent price or stop
\* price with "required".
C7_SucceedIffPositive ==
    /\ vres.fn = "validate_quantity" => NumericRule(args.qty, vres.r, FALSE)
    /\ vres.fn = "validate_price" => NumericRule(args.price, vres.r, TRUE)
    /\ vres.fn = "validate_stop_price" => NumericRule(args.stop_price, vres.r, TRUE)

\* C8: the parameter set handed to post_order, before timestamp and signature
\* are appended, is exactly the one of the validated order type, with the
\* validated symbol, side and numbers unchanged.
C8_ParametersHanded ==
    (last.op = "post") =>
        LET ot == DictGet(validated.dict, "order_type").s
            sy == <<"symbol", DictGet(validated.dict, "symbol")>>
            si == <<"side", DictGet(validated.dict, "side")>>
        IN  /\ ot = S_MARKET =>
                 handed = <<sy, si, <<"type", StrV(S_MARKET)>>,
                            <<"quantity", DictGet(validated.dict, "quantity")>> >>
            /\ ot = S_LIMIT =>
                 handed = <<sy, si, <<"type", StrV(S_LIMIT)>>,
                            <<"quantity", DictGet(validated.dict, "quantity")>>,
                            <<"price", DictGet(validated.dict, "price")>>,
                            <<"timeInForce", StrV(<<"G","T","C">>)>> >>
            /\ ot = S_TAKE_PROFIT =>
                 handed = <<sy, si, <<"type", StrV(S_TAKE_PROFIT_MARKET)>>,
                            <<"stopPrice", DictGet(validated.dict, "stop_price")>>,
                            <<"closePosition", StrV(<<"t","r","u","e">>)>> >>

C8_Witness ==
    /\ last.op = "post"
    /\ DictGet(validated.dict, "order_type").s = S_TAKE_PROFIT
    /\ args.qty = StrV(<<"1">>)
    /\ ~DictHas(handed, "quantity")

\* C9 (as claimed): a run ends with exit status 0 iff the order POST got a
\* 2xx response that was parsed and returned, and with 1 in every other case.
C9_ExitZeroIff2xx ==
    (pc = "exited") =>
        /\ exitCode \in {0, 1}
        /\ exitCode = 0 <=>
              (/\ last.op = "post"
               /\ IsResponse(last.net)
               /\ Is2xx(last.net.status)
               /\ ~last.raised)

\* C10 (as claimed): ping never raises and returns true only when a 2xx
\* response was received, false for every other outcome.
C10_PingTrueOnly2xx ==
    (last.op = "ping") =>
        /\ ~last.raised
        /\ last.value <=> (IsResponse(last.net) /\ Is2xx(last.net.status))

\* C10 (amended): ping never raises; it returns true exactly when a response
\* was received whose status is not a 4xx or 5xx one, and false for a 4xx or
\* 5xx response, a connection error, a timeout and any other exception.
C10_PingNeverRaises ==
    (last.op = "ping") =>
        /\ ~last.raised
        /\ last.value \in BOOLEAN
        /\ last.value <=>
              (IsResponse(last.net) /\ (last.net.status < 400 \/ last.net.status >= 600))
        /\ (~last.value) => (pc = "exited" /\ exitCode = 1)

C10_Witness ==
    /\ last.op = "ping"
    /\ last.net.kind = "Timeout"
    /\ ~last.value
    /\ ~last.raised

\* the order of validation C11 names
FieldOrder == <<"order_type", "symbol", "side", "quantity", "price", "stop_price">>

\* the rule of one field taken alone: the outcome of its own validator
FieldVerdict(a, field) ==
    CASE field = "order_type" -> validate_order_type(a.order_type)
      [] field = "symbol"     -> validate_symbol(a.symbol)
      [] field = "side"       -> validate_side(a.side)
      [] field = "quantity"   -> IF a.qty.t = "none"
                                 THEN ValidationError("--qty", "required")
                                 ELSE validate_quantity(a.qty)
      [] field = "price"      -> validate_price(a.price)
      [] OTHER                -> validate_stop_price(a.stop_price)

\* the fields the order type makes part of the order (C6)
FieldApplies(a, field) ==
    CASE field = "quantity"   -> Upper(Strip(a.order_type)) \in {S_MARKET, S_LIMIT}
      [] field = "price"      -> Upper(Strip(a.order_type)) = S_LIMIT
      [] field = "stop_price" -> Upper(Strip(a.order_type)) = S_TAKE_PROFIT
      [] OTHER                -> TRUE

FieldInvalid(a, i) ==
    FieldApplies(a, FieldOrder[i]) /\ ~FieldVerdict(a, FieldOrder[i]).ok

FirstInvalid(a) ==
    CHOOSE i \in DOMAIN FieldOrder :
        FieldInvalid(a, i) /\ \A j \in 1..(i - 1) : ~FieldInvalid(a, j)

\* the fields of the order up to and including position i
FieldsUpTo(a, i) ==
    SelectSeq(SubSeq(FieldOrder, 1, i), LAMBDA f : FieldApplies(a, f))

\* C11: when validate_all is given one or several invalid fields, it raises
\* the ValidationError of the first invalid one in the order order type,
\* symbol, side, quantity, price, stop price, and the fields it has looked at
\* are those up to that one: none after it.
C11_FirstInvalidFieldReported ==
    (/\ vres.fn = "validate_all"
     /\ \E i \in DOMAIN FieldOrder : FieldInvalid(args, i)) =>
        /\ ~validated.ok
        /\ validated.err = FieldVerdict(args, FieldOrder[FirstInvalid(args)]).err
        /\ Examined(args.symbol, args.side, args.order_type, args.qty, args.price,
                    args.stop_price) = FieldsUpTo(args, FirstInvalid(args))

C11_Witness ==
    /\ vres.fn = "validate_all"
    /\ ~validate_order_type(args.order_type).ok
    /\ ~validate_symbol(args.symbol).ok
    /\ ~validate_side(args.side).ok
    /\ validated.err.field = "order_type"

\* the three calls of a run, in the order C12 names
RunCalls == <<GetTime, GetPing, PostOrder>>

IsPrefix(s, t) == Len(s) <= Len(t) /\ s = SubSeq(t, 1, Len(s))

\* C12: every step of the main flow issues at most one network call, the calls
\* issued so far are always the first ones of: server-time GET, ping GET,
\* order POST (so at most three, each at most once, in that order); the order
\* POST is issued only by the step that follows a ping that returned true; and
\* after a ping that failed or after the POST, whatever its outcome, no call
\* is issued.
C12_AtMostThreeCallsInOrder ==
    [][/\ IsPrefix(calls, RunCalls)
       /\ IsPrefix(calls', RunCalls)
       /\ IsPrefix(calls, calls')
       /\ Len(calls') <= Len(calls) + 1
       /\ (Len(calls') = 3 /\ Len(calls) = 2) =>
              (last.op = "ping" /\ ~last.raised /\ last.value)
       /\ (last.op = "post" \/ (last.op = "ping" /\ ~last.value)) => calls' = calls
       /\ pc = "exited" => calls' = calls]_vars

C12_Witness ==
    /\ calls = RunCalls
    /\ last.op = "post"
    /\ last.raised
    /\ last.exc.type = "Timeout"
    /\ pc = "exited"

\* the order POST failed in the client with one of the failures C13 names
ClientLevelFailure ==
    /\ last.op = "post"
    /\ last.post.raised
    /\ last.post.exc.type \in {"BinanceAPIError", "ConnectionError", "Timeout"}

ErrorEntries(l) == SelectSeq(l, LAMBDA e : e.level = "ERROR")

\* C13 (as claimed): when the order POST fails at the client level (API
\* error, connection error or timeout), the run's log holds exactly one error
\* record, written by the client, and the exception that reaches main() is
\* the one the client raised.
C13_FailureLoggedOnce ==
    ClientLevelFailure =>
        /\ Len(ErrorEntries(log)) = 1
        /\ ErrorEntries(log)[1].logger = "client"
        /\ last.raised
        /\ last.exc = last.post.exc

====
